---- MODULE Spec2Model ----
(***************************************************************************)
(* A model of onnx/helper.py: the opset -> IR version table, the attribute *)
(* codec (make_attribute / get_attribute_value / printable_attribute's     *)
(* dispatch), the tensor codec (make_tensor) and the value-info builders.  *)
(*                                                                         *)
(* The helpers are pure functions.  Each is an operator computed the way   *)
(* the Python computes it; the state machine draws one call with its       *)
(* arguments in Init, applies the called helper in one action, and lets    *)
(* the consumers of the produced record (decoder, printer) act on it.      *)
(***************************************************************************)
EXTENDS Integers, Sequences, FiniteSets, TLC

VARIABLES call, pc, ret, decoded, printed, rendered

vars == <<call, pc, ret, decoded, printed, rendered>>

(***************************************************************************)
(* Outcomes of a call: a returned value or a raised exception.             *)
(***************************************************************************)
Return(v) == [ok |-> TRUE, err |-> "", val |-> <<v>>]

Raise(e) == [ok |-> FALSE, err |-> e, val |-> <<>>]

NoRet == [ok |-> FALSE, err |-> "<pending>", val |-> <<>>]

Value(r) == r.val[1]

(***************************************************************************)
(* 1. Version table                                                        *)
(***************************************************************************)
VERSION_TABLE ==
    << [release |-> "1.0",   ir |-> 3, args |-> <<1, 1>>],
       [release |-> "1.1",   ir |-> 3, args |-> <<5, 1>>],
       [release |-> "1.1.2", ir |-> 3, args |-> <<6, 1>>],
       [release |-> "1.2",   ir |-> 3, args |-> <<7, 1>>],
       [release |-> "1.3",   ir |-> 3, args |-> <<8, 1>>],
       [release |-> "1.4.1", ir |-> 4, args |-> <<9, 1>>],
       [release |-> "1.5.0", ir |-> 5, args |-> <<10, 1>>],
       [release |-> "1.6.0", ir |-> 6, args |-> <<11, 2>>],
       [release |-> "1.7.0", ir |-> 7, args |-> <<12, 2, 1>>],
       [release |-> "1.8.0", ir |-> 7, args |-> <<13, 2, 1>>],
       [release |-> "1.8.1", ir |-> 7, args |-> <<13, 2, 1>>],
       [release |-> "1.9.0", ir |-> 7, args |-> <<14, 2, 1>> ] >>

\* the domain names zipped with a row's trailing integers
DOMAIN_NAMES == <<"ai.onnx", "ai.onnx.ml", "ai.onnx.training">>

Min2(a, b) == IF a < b THEN a ELSE b

\* zip(names, args): the pairs, as long as the shorter of the two
Zip(names, args) ==
    [k \in 1..Min2(Len(names), Len(args)) |-> <<names[k], args[k]>>]

\* process(release_version, ir_version, *args), last-write-wins
RECURSIVE process_overwrite(_, _, _, _)
process_overwrite(result, ir_version, pairs, k) ==
    IF k > Len(pairs) THEN result
    ELSE process_overwrite(
            [p \in (DOMAIN result) \cup {pairs[k]} |->
                IF p = pairs[k] THEN ir_version ELSE result[p]],
            ir_version, pairs, k + 1)

\* process(release_version, ir_version, *args): a pair already in the result
\* keeps its IR version
RECURSIVE process(_, _, _, _)
process(result, ir_version, pairs, k) ==
    IF k > Len(pairs) THEN result
    ELSE process(
            IF pairs[k] \notin DOMAIN result
              THEN [p \in (DOMAIN result) \cup {pairs[k]} |->
                      IF p = pairs[k] THEN ir_version ELSE result[p]]
              ELSE result,
            ir_version, pairs, k + 1)

RECURSIVE process_rows(_, _, _)
process_rows(table, result, r) ==
    IF r > Len(table) THEN result
    ELSE process_rows(
            table,
            process(result, table[r].ir, Zip(DOMAIN_NAMES, table[r].args), 1),
            r + 1)

EmptyMap == [p \in {} |-> 0]

create_op_set_id_version_map(table) == process_rows(table, EmptyMap, 1)

OP_SET_ID_VERSION_MAP == create_op_set_id_version_map(VERSION_TABLE)

default_min_version == 3

\* find_min that looks the domain up as given, the empty one too
find_min_domain_as_given(domain, version) ==
    IF <<domain, version>> \in DOMAIN OP_SET_ID_VERSION_MAP
      THEN Return(OP_SET_ID_VERSION_MAP[<<domain, version>>])
      ELSE Raise("ValueError: Unsupported opset-version.")

\* find_min(domain, version): the mapped IR version, or the ValueError
find_min(domain, version) ==
    LET key == <<IF domain # "" THEN domain ELSE "ai.onnx", version>>
    IN  IF key \in DOMAIN OP_SET_ID_VERSION_MAP
          THEN Return(OP_SET_ID_VERSION_MAP[key])
          ELSE Raise("ValueError: Unsupported opset-version.")

\* max([find_min(x.domain, x.version) for x in opsetidlist]): the list
\* comprehension stops at the first id that raises
RECURSIVE max_find_min(_, _, _)
max_find_min(opsetidlist, k, best) ==
    IF k > Len(opsetidlist) THEN Return(best)
    ELSE LET m == find_min(opsetidlist[k].domain, opsetidlist[k].version)
         IN  IF ~m.ok THEN m
             ELSE max_find_min(opsetidlist, k + 1,
                               IF k = 1 \/ Value(m) > best THEN Value(m) ELSE best)

find_min_ir_version_for(opsetidlist) ==
    IF Len(opsetidlist) > 0
      THEN max_find_min(opsetidlist, 1, 0)
      ELSE Return(default_min_version)

(***************************************************************************)
(* 2. Host (Python) values offered to, and returned by, the attribute      *)
(* codec.  Every value is a record of one shape: k is the Python type, n a *)
(* number (a float's value in halves, an int's value, a bool as 0/1, a     *)
(* protobuf message's identity), s the code points of a text or the bytes  *)
(* of a bytes object, items the elements of a list or of a one-shot        *)
(* iterator (a generator, a map object).                                   *)
(***************************************************************************)
HV(k, n, s, items) == [k |-> k, n |-> n, s |-> s, items |-> items]

PyFloat(h) == HV("float", h, <<>>, <<>>)

PyInt(i) == HV("int", i, <<>>, <<>>)

PyBool(b) == HV("bool", b, <<>>, <<>>)

PyFalse == PyBool(0)

PyText(cps) == HV("text", 0, cps, <<>>)

PyBytes(bs) == HV("bytes", 0, bs, <<>>)

PyNone == HV("NoneType", 0, <<>>, <<>>)

TensorProto(id) == HV("TensorProto", id, <<>>, <<>>)

SparseTensorProto(id) == HV("SparseTensorProto", id, <<>>, <<>>)

GraphProto(id) == HV("GraphProto", id, <<>>, <<>>)

PyList(items) == HV("list", 0, <<>>, items)

PyIter(items) == HV("iter", 0, <<>>, items)

\* isinstance(value, float) / numbers.Integral / numbers.Real /
\* collections.Iterable
IsFloat(v) == v.k = "float"

IsIntegral(v) == v.k \in {"int", "bool"}

IsReal(v) == v.k \in {"float", "int", "bool"}

IsIterable(v) == v.k \in {"list", "iter", "text", "bytes"}

IsInstance(v, cls) == v.k = cls

\* int(v) and float(v) of a real number
ToInt(v) == PyInt(v.n)

ToFloat(v) == IF v.k = "float" THEN v ELSE PyFloat(2 * v.n)

\* text.encode('utf-8') for code points below 2048
RECURSIVE Utf8(_)
Utf8(cps) ==
    IF cps = <<>> THEN <<>>
    ELSE LET c == Head(cps)
         IN  (IF c < 128 THEN <<c>>
              ELSE <<192 + (c \div 64), 128 + (c % 64)>>) \o Utf8(Tail(cps))

\* the elements a for-loop over value sees on its pass-th traversal: a list
\* yields its elements every time, a one-shot iterator only the first time
Traverse(value, pass) ==
    IF value.k = "iter" /\ pass > 1 THEN <<>> ELSE value.items

All(xs, P(_)) == \A k \in 1..Len(xs) : P(xs[k])

Map(xs, F(_)) == [k \in 1..Len(xs) |-> F(xs[k])]

\* Python's == on the values above
ScalarEq(a, b) ==
    IF IsReal(a) /\ IsReal(b) THEN ToFloat(a).n = ToFloat(b).n
    ELSE a.k = b.k /\ a.n = b.n /\ a.s = b.s

PyEq(a, b) ==
    IF a.k = "list" /\ b.k = "list"
      THEN /\ Len(a.items) = Len(b.items)
           /\ \A k \in 1..Len(a.items) : ScalarEq(a.items[k], b.items[k])
      ELSE a.k # "list" /\ b.k # "list" /\ ScalarEq(a, b)

(***************************************************************************)
(* 3. Attribute codec                                                      *)
(***************************************************************************)
\* an AttributeProto: an optional field is a sequence of length 0 (unset)
\* or 1, a repeated field is a sequence
AttributeProto ==
    [name |-> "", doc_string |-> "", type |-> "UNDEFINED",
     f |-> <<>>, i |-> <<>>, s |-> <<>>, t |-> <<>>, sparse_tensor |-> <<>>,
     g |-> <<>>, floats |-> <<>>, ints |-> <<>>, strings |-> <<>>,
     tensors |-> <<>>, sparse_tensors |-> <<>>, graphs |-> <<>>]

HasField(attr, field) == Len(attr[field]) > 0

\* the value a float field holds after an assignment (the data model's
\* Float(f64): the assigned float itself)
FloatField(v) == PyFloat(v.n)

\* _to_bytes_or_false(val)
to_bytes_or_false(val) ==
    IF val.k = "bytes" THEN val
    ELSE IF val.k = "text" THEN PyBytes(Utf8(val.s))
    ELSE PyFalse

\* make_attribute(key, value, doc_string)
make_attribute(key, value, doc_string) ==
    LET attr == [AttributeProto EXCEPT
                    !.name = key,
                    !.doc_string = IF doc_string # "" THEN doc_string ELSE @]
        is_iterable == IsIterable(value)
        bytes_or_false == to_bytes_or_false(value)
    IN  IF IsFloat(value)
          THEN Return([attr EXCEPT !.f = <<FloatField(value)>>, !.type = "FLOAT"])
        ELSE IF IsIntegral(value)
          THEN Return([attr EXCEPT !.i = <<ToInt(value)>>, !.type = "INT"])
        ELSE IF bytes_or_false # PyFalse
          THEN Return([attr EXCEPT !.s = <<bytes_or_false>>, !.type = "STRING"])
        ELSE IF IsInstance(value, "TensorProto")
          THEN Return([attr EXCEPT !.t = <<value>>, !.type = "TENSOR"])
        ELSE IF IsInstance(value, "SparseTensorProto")
          THEN Return([attr EXCEPT !.sparse_tensor = <<value>>, !.type = "SPARSE_TENSOR"])
        ELSE IF IsInstance(value, "GraphProto")
          THEN Return([attr EXCEPT !.g = <<value>>, !.type = "GRAPH"])
        ELSE IF is_iterable
          THEN LET byte_array == Map(Traverse(value, 1), to_bytes_or_false)
                   \* every later "for v in value" is a further traversal
                   rest == Traverse(value, 2)
                   IsBytes(b) == b # PyFalse
                   IsTensor(v) == IsInstance(v, "TensorProto")
                   IsSparse(v) == IsInstance(v, "SparseTensorProto")
                   IsGraph(v) == IsInstance(v, "GraphProto")
               IN  IF All(rest, IsIntegral)
                     THEN Return([attr EXCEPT !.ints = Map(rest, ToInt),
                                              !.type = "INTS"])
                   ELSE IF All(rest, IsReal)
                     THEN Return([attr EXCEPT
                                     !.floats = Map(Map(rest, ToFloat), FloatField),
                                     !.type = "FLOATS"])
                   ELSE IF All(byte_array, IsBytes)
                     THEN Return([attr EXCEPT !.strings = byte_array,
                                              !.type = "STRINGS"])
                   ELSE IF All(rest, IsTensor)
                     THEN Return([attr EXCEPT !.tensors = rest, !.type = "TENSORS"])
                   ELSE IF All(rest, IsSparse)
                     THEN Return([attr EXCEPT !.sparse_tensors = rest,
                                              !.type = "SPARSE_TENSORS"])
                   ELSE IF All(rest, IsGraph)
                     THEN Return([attr EXCEPT !.graphs = rest, !.type = "GRAPHS"])
                   ELSE Raise("ValueError: iterable attribute of no applicable type")
        ELSE Raise("TypeError: not valid attribute data type")

\* the value of an optional field: what was set, or the field's default
FieldValue(field, default) == IF Len(field) > 0 THEN field[1] ELSE default

\* get_attribute_value's chain of tests on the kind tag
attribute_value_of_type(attr, type) ==
    CASE type = "FLOAT" -> Return(FieldValue(attr.f, PyFloat(0)))
      [] type = "INT" -> Return(FieldValue(attr.i, PyInt(0)))
      [] type = "STRING" -> Return(FieldValue(attr.s, PyBytes(<<>>)))
      [] type = "TENSOR" -> Return(FieldValue(attr.t, TensorProto(0)))
      [] type = "SPARSE_TENSOR" ->
            Return(FieldValue(attr.sparse_tensor, SparseTensorProto(0)))
      [] type = "GRAPH" -> Return(FieldValue(attr.g, GraphProto(0)))
      [] type = "FLOATS" -> Return(PyList(attr.floats))
      [] type = "INTS" -> Return(PyList(attr.ints))
      [] type = "STRINGS" -> Return(PyList(attr.strings))
      [] type = "TENSORS" -> Return(PyList(attr.tensors))
      [] type = "SPARSE_TENSORS" -> Return(PyList(attr.sparse_tensors))
      [] type = "GRAPHS" -> Return(PyList(attr.graphs))
      [] OTHER -> Raise("ValueError: Unsupported ONNX attribute")

\* get_attribute_value with the FLOATS branch reading the ints field
get_attribute_value_floats_from_ints(attr) ==
    attribute_value_of_type(attr, IF attr.type = "FLOATS" THEN "INTS" ELSE attr.type)

\* get_attribute_value(attr)
get_attribute_value(attr) == attribute_value_of_type(attr, attr.type)

\* the field whose branch printable_attribute takes: HasField for the
\* optional fields, truthiness (non-empty) for the repeated ones
printable_attribute_field(attr) ==
    IF HasField(attr, "f") THEN "f"
    ELSE IF HasField(attr, "i") THEN "i"
    ELSE IF HasField(attr, "s") THEN "s"
    ELSE IF HasField(attr, "t") THEN "t"
    ELSE IF HasField(attr, "g") THEN "g"
    ELSE IF attr.floats # <<>> THEN "floats"
    ELSE IF attr.ints # <<>> THEN "ints"
    ELSE IF attr.strings # <<>> THEN "strings"
    ELSE IF attr.tensors # <<>> THEN "tensors"
    ELSE IF attr.graphs # <<>> THEN "graphs"
    ELSE "<Unknown>"

(***************************************************************************)
(* 4. Tensor codec                                                         *)
(***************************************************************************)
\* a number with its real and imaginary parts (a real number, and a byte of
\* a bytes object, has imaginary part 0)
Num(re, im) == [re |-> re, im |-> im]

\* mapping.TENSOR_TYPE_TO_NP_TYPE[data_type].itemsize
itemsize(data_type) ==
    CASE data_type = "UINT8" -> 1
      [] data_type = "FLOAT16" -> 2
      [] data_type = "FLOAT" -> 4
      [] data_type = "INT64" -> 8
      [] data_type = "STRING" -> 8
      [] data_type = "COMPLEX64" -> 8
      [] data_type = "COMPLEX128" -> 16

\* mapping.STORAGE_TENSOR_TYPE_TO_FIELD[
\*     mapping.TENSOR_TYPE_TO_STORAGE_TENSOR_TYPE[data_type]]
storage_field(data_type) ==
    CASE data_type = "UINT8" -> "int32_data"
      [] data_type = "FLOAT16" -> "int32_data"
      [] data_type = "FLOAT" -> "float_data"
      [] data_type = "INT64" -> "int64_data"
      [] data_type = "STRING" -> "string_data"
      [] data_type = "COMPLEX64" -> "float_data"
      [] data_type = "COMPLEX128" -> "double_data"

TypedFields == {"float_data", "int32_data", "int64_data", "string_data", "double_data"}

\* a TensorProto: raw_data is an optional field (length 0 or 1)
NewTensorProto ==
    [name |-> "", data_type |-> "UNDEFINED", dims |-> <<>>, raw_data |-> <<>>,
     float_data |-> <<>>, int32_data |-> <<>>, int64_data |-> <<>>,
     string_data |-> <<>>, double_data |-> <<>>]

\* split_complex_to_pairs with the imaginary part first
split_complex_imag_first(ca) ==
    [i \in 1..(Len(ca) * 2) |->
        IF (i - 1) % 2 = 0 THEN Num(ca[((i - 1) \div 2) + 1].im, 0)
                           ELSE Num(ca[((i - 1) \div 2) + 1].re, 0)]

\* split_complex_to_pairs(ca); the Python index i is i - 1 here
split_complex_to_pairs(ca) ==
    [i \in 1..(Len(ca) * 2) |->
        IF (i - 1) % 2 = 0 THEN Num(ca[((i - 1) \div 2) + 1].re, 0)
                           ELSE Num(ca[((i - 1) \div 2) + 1].im, 0)]

\* the assertion on a STRING tensor, switched off
string_raw_unchecked(data_type, raw) == FALSE

\* "assert not raw" for a STRING tensor: TRUE when the assertion fails
string_raw_rejected(data_type, raw) == data_type = "STRING" /\ raw

RECURSIVE times_dims(_, _, _)
times_dims(size, dims, k) ==
    IF k > Len(dims) THEN size ELSE times_dims(size * dims[k], dims, k + 1)

\* the size that counts elements for raw data too
tensor_size_in_elements(data_type, dims, raw) == times_dims(1, dims, 1)

\* size = 1 if (not raw) else itemsize; for d in dims: size = size * d
tensor_size(data_type, dims, raw) ==
    times_dims(IF ~raw THEN 1 ELSE itemsize(data_type), dims, 1)

\* make_tensor(name, data_type, dims, vals, raw); vals is
\* [k |-> "list" or "bytes", items |-> its elements]
make_tensor(name, data_type, dims, vals, raw) ==
    LET tensor == [NewTensorProto EXCEPT !.data_type = data_type, !.name = name]
        size == tensor_size(data_type, dims, raw)
        vals2 == IF data_type \in {"COMPLEX64", "COMPLEX128"}
                   THEN [k |-> "list", items |-> split_complex_to_pairs(vals.items)]
                   ELSE vals
    IN  IF string_raw_rejected(data_type, raw)
          THEN Raise("AssertionError: Can not use raw_data to store string type")
        ELSE IF Len(vals.items) # size
          THEN Raise("ValueError: Number of values does not match tensor's size.")
        ELSE IF raw
          THEN \* a bytes field takes a bytes object only
               IF vals2.k = "bytes"
                 THEN Return([tensor EXCEPT !.raw_data = <<vals2.items>>, !.dims = dims])
                 ELSE Raise("TypeError: raw_data")
        ELSE Return([tensor EXCEPT ![storage_field(data_type)] = vals2.items,
                                   !.dims = dims])

(***************************************************************************)
(* 5. Value-info builders                                                  *)
(***************************************************************************)
\* an optional argument: None, or a given value
None == [given |-> FALSE, v |-> <<>>]

Some(v) == [given |-> TRUE, v |-> v]

\* a TensorShapeProto.Dimension; which names the member of the oneof
Dimension(which, value, denotation) ==
    [which |-> which, value |-> value, denotation |-> denotation]

\* the body of "for i, d in enumerate(shape)": the dimension added for d
shape_dim(d, shape_denotation, i) ==
    LET denotation == IF shape_denotation.given /\ Len(shape_denotation.v) > 0
                        THEN shape_denotation.v[i] ELSE ""
    IN  IF d.k = "NoneType" THEN Dimension("", d, denotation)
        ELSE IF IsIntegral(d) THEN Dimension("dim_value", ToInt(d), denotation)
        ELSE IF d.k = "text" THEN Dimension("dim_param", d, denotation)
        ELSE Dimension("<invalid>", d, denotation)

\* build_shape with "if shape:" for "if shape is not None:"
build_shape_if_truthy(shape, shape_denotation) ==
    IF ~shape.given \/ Len(shape.v) = 0 THEN Return(<<>>)
    ELSE IF /\ shape_denotation.given /\ Len(shape_denotation.v) > 0
            /\ Len(shape_denotation.v) # Len(shape.v)
      THEN Raise("ValueError: Invalid shape_denotation. Must be of the same length as shape.")
    ELSE LET dim == [i \in 1..Len(shape.v) |-> shape_dim(shape.v[i], shape_denotation, i)]
         IN  IF \E i \in 1..Len(dim) : dim[i].which = "<invalid>"
               THEN Raise("ValueError: Invalid item in shape")
               ELSE Return(<<[dim |-> dim]>>)

\* "if shape is not None:" of both builders: the shape field of the type,
\* absent (length 0) or present with its dimensions
build_shape(shape, shape_denotation) ==
    IF ~shape.given THEN Return(<<>>)
    ELSE IF /\ shape_denotation.given /\ Len(shape_denotation.v) > 0
            /\ Len(shape_denotation.v) # Len(shape.v)
      THEN Raise("ValueError: Invalid shape_denotation. Must be of the same length as shape.")
    ELSE LET dim == [i \in 1..Len(shape.v) |-> shape_dim(shape.v[i], shape_denotation, i)]
         IN  IF \E i \in 1..Len(dim) : dim[i].which = "<invalid>"
               THEN Raise("ValueError: Invalid item in shape")
               ELSE Return(<<[dim |-> dim]>>)

value_info(kind, name, elem_type, shape, doc_string, shape_denotation) ==
    LET built == build_shape(shape, shape_denotation)
    IN  IF ~built.ok THEN built
        ELSE Return([name |-> name, doc_string |-> doc_string,
                     type |-> [which |-> kind, elem_type |-> elem_type,
                               shape |-> Value(built)]])

\* make_tensor_value_info(name, elem_type, shape, doc_string, shape_denotation)
make_tensor_value_info(name, elem_type, shape, doc_string, shape_denotation) ==
    value_info("tensor_type", name, elem_type, shape, doc_string, shape_denotation)

\* make_sparse_tensor_value_info(name, elem_type, shape, doc_string,
\* shape_denotation)
make_sparse_tensor_value_info(name, elem_type, shape, doc_string, shape_denotation) ==
    value_info("sparse_tensor_type", name, elem_type, shape, doc_string, shape_denotation)

(***************************************************************************)
(* 6. Text.  A Python string is the sequence of its code points; a text    *)
(* of several lines holds the code point 10 between its lines.             *)
(***************************************************************************)
\* the literal texts of the printer
LIT_DOTS == <<46, 46, 46, 60, 43, 108, 101, 110, 61>>

LIT_FLOAT == <<70, 76, 79, 65, 84>>

LIT_INT64 == <<73, 78, 84, 54, 52>>

LIT_STRING == <<83, 84, 82, 73, 78, 71>>

LIT_COMMA == <<44, 32>>

LIT_SCALAR == <<44, 32, 115, 99, 97, 108, 97, 114>>

LIT_UNKNOWN_TYPE == <<85, 110, 107, 110, 111, 119, 110, 32, 116, 121, 112, 101, 32>>

\* the name of a member of TypeProto's oneof, as text
TypeFieldName(which) ==
    IF which = "tensor_type" THEN <<116, 101, 110, 115, 111, 114, 95, 116, 121, 112, 101>> ELSE <<115, 112, 97, 114, 115, 101, 95, 116, 101, 110, 115, 111, 114, 95, 116, 121, 112, 101>>

\* sep.join(xs)
RECURSIVE Join(_, _)
Join(sep, xs) ==
    IF Len(xs) = 0 THEN <<>>
    ELSE IF Len(xs) = 1 THEN xs[1]
    ELSE xs[1] \o sep \o Join(sep, Tail(xs))

\* the decimal digits of a natural number
RECURSIVE DigitsOf(_)
DigitsOf(n) ==
    IF n < 10 THEN <<48 + n>> ELSE DigitsOf(n \div 10) \o <<48 + (n % 10)>>

\* '{:d}'.format(i), '%d' % i, str(i)
str_int(i) == IF i < 0 THEN <<45>> \o DigitsOf(0 - i) ELSE DigitsOf(i)

\* '{:.15g}'.format(f) of a float given in halves: 2.0 is "2", 0.5 is "0.5"
str_float(h) ==
    IF h % 2 = 0 THEN str_int(h \div 2)
    ELSE (IF h < 0 THEN <<45>> ELSE <<>>)
           \o DigitsOf((IF h < 0 THEN 0 - h ELSE h) \div 2) \o <<46, 53>>

\* bytes.decode('utf-8', errors='ignore') for one- and two-byte sequences:
\* a byte that starts no valid sequence is dropped
RECURSIVE Utf8Decode(_)
Utf8Decode(bs) ==
    IF bs = <<>> THEN <<>>
    ELSE LET b == Head(bs)
         IN  IF b < 128 THEN <<b>> \o Utf8Decode(Tail(bs))
             ELSE IF /\ b >= 194 /\ b < 224 /\ Len(bs) >= 2
                     /\ bs[2] >= 128 /\ bs[2] < 192
               THEN <<(b - 192) * 64 + (bs[2] - 128)>> \o Utf8Decode(Tail(Tail(bs)))
             ELSE Utf8Decode(Tail(bs))

\* the texts longer than this many characters are cut
SanitizeLimit == 64

\* "...<+len=%d>" % omitted
TruncationSuffix(omitted) == LIT_DOTS \o str_int(omitted) \o <<62>>

\* _sanitize_str(s); str(s) is taken of integers only
sanitize_str(s) ==
    LET sanitized == IF s.k = "text" THEN s.s
                     ELSE IF s.k = "bytes" THEN Utf8Decode(s.s)
                     ELSE str_int(s.n)
    IN  IF Len(sanitized) < SanitizeLimit THEN sanitized
        ELSE SubSeq(sanitized, 1, SanitizeLimit)
               \o TruncationSuffix(Len(sanitized) - SanitizeLimit)

(***************************************************************************)
(* 7. Printer of value-infos                                               *)
(***************************************************************************)
\* TensorProto.DataType.Name(elem_type)
DataTypeName(elem_type) ==
    CASE elem_type = "FLOAT" -> LIT_FLOAT
      [] elem_type = "INT64" -> LIT_INT64
      [] elem_type = "STRING" -> LIT_STRING

\* printable_dim(dim): the assertion fails for a dimension with no value
printable_dim(dim) ==
    IF dim.which = "" THEN Raise("AssertionError: which is not None")
    ELSE IF dim.which = "dim_value" THEN Return(str_int(dim.value.n))
    ELSE Return(dim.value.s)

\* printable_type(t)
printable_type(t) ==
    IF t.which = "tensor_type"
      THEN LET s == DataTypeName(t.elem_type)
           IN  IF Len(t.shape) > 0
                 THEN LET dim == t.shape[1].dim
                          dims == [i \in 1..Len(dim) |-> printable_dim(dim[i])]
                      IN  IF Len(dim) > 0
                            THEN IF \E i \in 1..Len(dim) : ~dims[i].ok
                                   THEN Raise("AssertionError: which is not None")
                                   ELSE Return(s \o LIT_COMMA
                                                 \o Join(<<120>>,
                                                         [i \in 1..Len(dim) |-> Value(dims[i])]))
                            ELSE Return(s \o LIT_SCALAR)
                 ELSE Return(s)
    ELSE IF t.which = "" THEN Return(<<>>)
    ELSE Return(LIT_UNKNOWN_TYPE \o TypeFieldName(t.which))

\* printable_value_info(v): a message is truthy, so the type is always
\* printed
printable_value_info(v) ==
    LET s == <<37>> \o v.name
        t == printable_type(v.type)
    IN  IF ~t.ok THEN t ELSE Return(s \o <<91>> \o Value(t) \o <<93>>)

(***************************************************************************)
(* 8. Printer of attributes and nodes.  A NodeProto is a record of op_type *)
(* (a text), input and output (sequences of texts) and attribute (a        *)
(* sequence of AttributeProto whose name is a text, whose t holds a        *)
(* TensorProto record and whose g and graphs hold GraphProto records).     *)
(***************************************************************************)
LIT_EQ == <<61>>

LIT_SPACE == <<32>>

LIT_TENSOR == <<60, 84, 101, 110, 115, 111, 114, 62>>

LIT_SCALAR_TENSOR == <<60, 83, 99, 97, 108, 97, 114, 32, 84, 101, 110, 115, 111, 114, 32>>

LIT_GRAPH == <<60, 103, 114, 97, 112, 104, 32>>

LIT_TENSORS == <<91, 60, 84, 101, 110, 115, 111, 114, 62, 44, 32, 46, 46, 46, 93>>

LIT_UNKNOWN == <<60, 85, 110, 107, 110, 111, 119, 110, 62>>

RECURSIVE Concat(_)
Concat(xss) == IF Len(xss) = 0 THEN <<>> ELSE Head(xss) \o Concat(Tail(xss))

\* Python's <= on texts: by code point, a proper prefix first
LexLeq(a, b) ==
    LET diff == {i \in 1..Min2(Len(a), Len(b)) : a[i] # b[i]}
    IN  IF diff = {} THEN Len(a) <= Len(b)
        ELSE LET i == CHOOSE i \in diff : \A j \in diff : i <= j
             IN  a[i] < b[i]

RECURSIVE Insert(_, _)
Insert(x, xs) ==
    IF Len(xs) = 0 THEN <<x>>
    ELSE IF LexLeq(x, xs[1]) THEN <<x>> \o xs
    ELSE <<xs[1]>> \o Insert(x, Tail(xs))

\* printable_node without the sorting of the printed attributes
sorted_as_stored(xs) == xs

\* sorted(printed_attrs)
RECURSIVE sorted(_)
sorted(xs) ==
    IF Len(xs) = 0 THEN <<>>
    ELSE Insert(xs[Len(xs)], sorted(SubSeq(xs, 1, Len(xs) - 1)))

\* repr(s) of a text of printable characters: in single quotes, or in
\* double quotes if it holds a single quote and no double quote; the
\* backslash and the enclosing quote are escaped
RECURSIVE Escape(_, _)
Escape(s, quote) ==
    IF Len(s) = 0 THEN <<>>
    ELSE (IF s[1] = 92 \/ s[1] = quote THEN <<92, s[1]>> ELSE <<s[1]>>)
            \o Escape(Tail(s), quote)

str_str(s) ==
    LET has_single == \E i \in 1..Len(s) : s[i] = 39
        has_double == \E i \in 1..Len(s) : s[i] = 34
        quote == IF has_single /\ ~has_double THEN 34 ELSE 39
    IN  <<quote>> \o Escape(s, quote) \o <<quote>>

\* str_list(str_elem, xs) of the printed elements
str_list(strs) == <<91>> \o Join(LIT_COMMA, strs) \o <<93>>

str_float_of(v) == str_float(v.n)

str_int_of(v) == str_int(v.n)

sanitized_repr(v) == str_str(sanitize_str(v))

\* "<graph NAME>" and, in a list, "<graph NAME>," for all but the last
graph_text(g) == LIT_GRAPH \o g.name \o <<62>>

graphs_content(gs) ==
    [i \in 1..Len(gs) |->
        graph_text(gs[i]) \o (IF i # Len(gs) THEN <<44>> ELSE <<>>)]

\* str(getattr(attr.t, field)) of a repeated field of integers
scalar_tensor_text(t) ==
    LIT_SCALAR_TENSOR \o str_list(Map(t[storage_field(t.data_type)], str_int_of))
        \o <<62>>

\* printable_attribute(attr, subgraphs=True): the text and the graphs
printable_attribute(attr) ==
    LET field == printable_attribute_field(attr)
        value ==
            CASE field = "f" -> <<str_float_of(attr.f[1])>>
              [] field = "i" -> <<str_int_of(attr.i[1])>>
              [] field = "s" -> <<sanitized_repr(attr.s[1])>>
              [] field = "t" ->
                    IF Len(attr.t[1].dims) > 0 THEN <<LIT_TENSOR>>
                    ELSE <<scalar_tensor_text(attr.t[1])>>
              [] field = "g" -> <<graph_text(attr.g[1])>>
              [] field = "floats" -> <<str_list(Map(attr.floats, str_float_of))>>
              [] field = "ints" -> <<str_list(Map(attr.ints, str_int_of))>>
              [] field = "strings" -> <<str_list(Map(attr.strings, sanitized_repr))>>
              [] field = "tensors" -> <<LIT_TENSORS>>
              [] field = "graphs" -> <<<<91>>>> \o graphs_content(attr.graphs) \o <<<<93>>>>
              [] OTHER -> <<LIT_UNKNOWN>>
        graphs ==
            CASE field = "g" -> attr.g
              [] field = "graphs" -> attr.graphs
              [] OTHER -> <<>>
    IN  [text |-> Join(LIT_SPACE, <<attr.name, LIT_EQ>> \o value), graphs |-> graphs]

\* ['%{}'.format(name) for name in names]
percent_names(names) == [i \in 1..Len(names) |-> <<37>> \o names[i]]

printed_attr_of(attr) == printable_attribute(attr).text

graphs_of(attr) == printable_attribute(attr).graphs

\* the subgraphs of a node, collected in the order of the printed attributes
extend_graphs_as_printed(attribute) ==
    LET texts == sorted(Map(attribute, printed_attr_of))
    IN  Concat([i \in 1..Len(texts) |->
            graphs_of(CHOOSE a \in {attribute[k] : k \in 1..Len(attribute)} :
                        printed_attr_of(a) = texts[i])])

\* graphs.extend(gs) for every attribute, in stored order
extend_graphs(attribute) == Concat(Map(attribute, graphs_of))

\* printable_node(node, prefix, subgraphs=True): the text and the graphs
printable_node(node, prefix) ==
    LET outputs == IF Len(node.output) > 0
                     THEN <<Join(LIT_COMMA, percent_names(node.output)), LIT_EQ>>
                     ELSE <<>>
        printed_attrs == Map(node.attribute, printed_attr_of)
        printed_attributes == Join(LIT_COMMA, sorted(printed_attrs))
        printed_inputs == Join(LIT_COMMA, percent_names(node.input))
        call_text == IF Len(node.attribute) > 0
                       THEN node.op_type \o <<91>> \o printed_attributes \o <<93>>
                                \o <<40>> \o printed_inputs \o <<41>>
                       ELSE node.op_type \o <<40>> \o printed_inputs \o <<41>>
    IN  [text |-> prefix \o Join(LIT_SPACE, outputs \o <<call_text>>),
         graphs |-> extend_graphs(node.attribute)]

(***************************************************************************)
(* 9. Printer of graphs                                                    *)
(***************************************************************************)
LIT_NEWLINE == <<10>>

LIT_INDENT == <<32, 32>>

LIT_GRAPH_WORD == <<103, 114, 97, 112, 104>>

LIT_OPTIONAL == <<111, 112, 116, 105, 111, 110, 97, 108, 32, 105, 110, 112, 117, 116, 115, 32, 119, 105, 116, 104, 32, 109, 97, 116, 99, 104, 105, 110, 103, 32, 105, 110, 105, 116, 105, 97, 108, 105, 122, 101, 114, 115, 32, 40>>

LIT_INITIALIZERS == <<105, 110, 105, 116, 105, 97, 108, 105, 122, 101, 114, 115, 32, 40>>

LIT_RETURN == <<114, 101, 116, 117, 114, 110>>

\* printable_tensor_proto(t)
printable_tensor_proto(t) ==
    <<37>> \o t.name \o <<91>> \o DataTypeName(t.data_type)
      \o (IF Len(t.dims) > 0
            THEN LIT_COMMA \o Join(<<120>>, Map(t.dims, str_int))
            ELSE LIT_SCALAR)
      \o <<93>>

\* content.append(prefix + ' '.join(header)), then one indented line per
\* entry; the header that is left is ")"
header_section(state, title, lines, prefix) ==
    [content |-> state.content
                    \o <<prefix \o Join(LIT_SPACE, state.header \o title)>>
                    \o [i \in 1..Len(lines) |-> prefix \o LIT_INDENT \o lines[i]],
     header |-> <<<<41>>>>]

\* the header of printable_graph: the lines before the one that ends in
\* "{", and the words of that line
graph_header(graph, prefix, in_lines) ==
    LET initializers == {graph.initializer[i].name : i \in 1..Len(graph.initializer)}
        start == [content |-> <<>>, header |-> <<LIT_GRAPH_WORD, graph.name>>]
        required == {i \in 1..Len(graph.input) : graph.input[i].name \notin initializers}
        IsRequired(i) == i \in required
        IsOptional(i) == i \notin required
        in_strs == Map(SelectSeq([i \in 1..Len(graph.input) |-> i], IsRequired),
                       LAMBDA i : in_lines[i])
        in_with_init_strs ==
            Map(SelectSeq([i \in 1..Len(graph.input) |-> i], IsOptional),
                LAMBDA i : in_lines[i])
        after_required ==
            IF Len(in_strs) > 0
              THEN header_section(start, <<<<40>>>>, in_strs, prefix)
              ELSE [start EXCEPT !.header = @ \o <<<<40>>, <<41>>>>]
        after_optional ==
            IF Len(in_with_init_strs) > 0
              THEN header_section(after_required, <<LIT_OPTIONAL>>, in_with_init_strs,
                                  prefix)
              ELSE after_required
        graph_inputs == {graph.input[i].name : i \in 1..Len(graph.input)}
        Unmatched(t) == t.name \notin graph_inputs
        init_strs == Map(SelectSeq(graph.initializer, Unmatched), printable_tensor_proto)
        after_initializers ==
            IF Len(in_with_init_strs) < Cardinality(initializers)
              THEN header_section(after_optional, <<LIT_INITIALIZERS>>, init_strs, prefix)
              ELSE after_optional
    IN  IF Len(graph.input) > 0 THEN after_initializers ELSE start

\* the "return" line
graph_tail(graph, indent) ==
    indent \o Join(LIT_SPACE,
                   <<LIT_RETURN>>
                     \o (IF Len(graph.output) > 0
                           THEN <<Join(LIT_COMMA,
                                       percent_names([i \in 1..Len(graph.output) |->
                                                        graph.output[i].name]))>>
                           ELSE <<>>))

\* printable_graph(graph, prefix): the text, or the error of a value-info
\* that cannot be printed
RECURSIVE printable_graph(_, _)
printable_graph(graph, prefix) ==
    LET indent == prefix \o LIT_INDENT
        printed_inputs == Map(graph.input, printable_value_info)
        failed == {i \in 1..Len(printed_inputs) : ~printed_inputs[i].ok}
        header == graph_header(graph, prefix, Map(printed_inputs, Value))
        nodes == [i \in 1..Len(graph.node) |-> printable_node(graph.node[i], indent)]
        graphs == Concat([i \in 1..Len(nodes) |-> nodes[i].graphs])
        nested == [i \in 1..Len(graphs) |-> printable_graph(graphs[i], <<>>)]
        failed_nested == {i \in 1..Len(nested) : ~nested[i].ok}
        content == header.content
                     \o <<prefix \o Join(LIT_SPACE, header.header \o <<<<123>>>>)>>
                     \o [i \in 1..Len(nodes) |-> nodes[i].text]
                     \o <<graph_tail(graph, indent)>>
                     \o <<prefix \o <<125>>>>
                     \o [i \in 1..Len(nested) |-> LIT_NEWLINE \o Value(nested[i])]
    IN  IF failed # {}
          THEN printed_inputs[CHOOSE i \in failed : \A j \in failed : i <= j]
        ELSE IF failed_nested # {}
          THEN nested[CHOOSE i \in failed_nested : \A j \in failed_nested : i <= j]
        ELSE Return(Join(LIT_NEWLINE, content))

(***************************************************************************)
(* 10. Model builders.  The keyword arguments are a record of optional     *)
(* values (None if the keyword is not passed).                             *)
(***************************************************************************)
\* onnx.IR_VERSION, the IR version of the release the table ends with
IR_VERSION == 7

\* the values defs.onnx_opset_version() may have: the default-domain
\* version of the row the table ends with, or that of a later release
SupportedOpsetVersions == {14, 15}

NewModelProto ==
    [ir_version |-> 0, producer_name |-> "", graph |-> <<>>, opset_import |-> <<>>]

\* "for k, v in kwargs.items(): setattr(model, k, v)" of the keywords that
\* are left
set_fields(model, kwargs) ==
    [model EXCEPT
        !.ir_version = IF kwargs.ir_version.given THEN kwargs.ir_version.v ELSE @,
        !.producer_name = IF kwargs.producer_name.given
                            THEN kwargs.producer_name.v ELSE @]

\* make_model(graph, **kwargs), where defs.onnx_opset_version() is
\* opset_version
make_model(graph, kwargs, opset_version) ==
    LET model == [NewModelProto EXCEPT !.ir_version = IR_VERSION, !.graph = <<graph>>]
        opset_imports == kwargs.opset_imports
        imported ==
            IF opset_imports.given
              THEN [model EXCEPT !.opset_import = @ \o opset_imports.v]
              ELSE [model EXCEPT
                      !.opset_import = @ \o <<[domain |-> "", version |-> opset_version]>>]
    IN  Return(set_fields(imported, kwargs))

\* "imports = kwargs['opset_imports'] if 'opset_imports' in kwargs else []"
gen_version_imports(kwargs, opset_version) ==
    IF kwargs.opset_imports.given THEN kwargs.opset_imports.v ELSE <<>>

\* make_model_gen_version(graph, **kwargs)
make_model_gen_version(graph, kwargs, opset_version) ==
    IF ~kwargs.ir_version.given
      THEN LET imports == gen_version_imports(kwargs, opset_version)
               ir_version == find_min_ir_version_for(imports)
           IN  IF ~ir_version.ok THEN ir_version
               ELSE make_model(graph, [kwargs EXCEPT !.ir_version = Some(Value(ir_version))],
                               opset_version)
      ELSE make_model(graph, kwargs, opset_version)

(***************************************************************************)
(* 11. The calls                                                            *)
(***************************************************************************)
MaxIds == 2

MaxListLen == 2

MaxRank == 2

MaxDim == 2

MaxVals == 16

MaxShapeLen == 2

MaxDenotLen == 2

SeqsUpTo(S, n) == UNION {[1..m -> S] : m \in 0..n}

OpsetDomains == {"", "ai.onnx", "ai.onnx.ml", "ai.onnx.training", "com.example"}

OpsetVersions == {1, 2, 9, 14, 15}

OpsetIds == [domain : OpsetDomains, version : OpsetVersions]

\* 0.5 and 2.0; 2; False and True; u"\xe9"; b"a"; messages; None
ScalarValues ==
    {PyFloat(1), PyFloat(4), PyInt(2), PyBool(0), PyBool(1), PyText(<<233>>),
     PyBytes(<<97>>), TensorProto(1), TensorProto(2), SparseTensorProto(1),
     GraphProto(1), PyNone}

AttributeValues ==
    ScalarValues
      \cup {PyList(items) : items \in SeqsUpTo(ScalarValues, MaxListLen)}
      \cup {PyIter(items) : items \in SeqsUpTo(ScalarValues, MaxListLen)}

DataTypes == {"UINT8", "FLOAT16", "FLOAT", "INT64", "STRING", "COMPLEX64", "COMPLEX128"}

IsComplex(data_type) == data_type \in {"COMPLEX64", "COMPLEX128"}

\* n values, the j-th distinct from the others: a bytes object when raw, a
\* list of (for the complex types, complex) numbers otherwise
ValsOf(data_type, raw, n) ==
    [k |-> IF raw THEN "bytes" ELSE "list",
     items |-> [j \in 1..n |-> IF IsComplex(data_type) /\ ~raw
                                 THEN Num(j, 0 - j) ELSE Num(j, 0)]]

\* None, an int, a symbolic name, and an item of another type
ShapeItems == {PyNone, PyInt(2), PyText(<<110>>), PyFloat(1)}

Denotations == {"DATA_BATCH", "DATA_CHANNEL"}

MaxStrLen == 66

\* a text of n characters, the j-th distinct from the others
RampText(n) == [j \in 1..n |-> 33 + j]

\* texts and ASCII bytes of every length up to MaxStrLen; bytes that start
\* with a two-byte character, and with a byte that is no UTF-8; an integer
SanitizeInputs ==
    {PyText(RampText(n)) : n \in 0..MaxStrLen}
      \cup {PyBytes(RampText(n)) : n \in 0..MaxStrLen}
      \cup {PyBytes(<<195, 169>> \o RampText(n)) : n \in 0..MaxStrLen}
      \cup {PyBytes(<<255>> \o RampText(n)) : n \in 0..MaxStrLen}
      \cup {PyInt(7)}

MaxAttrs == 3

\* a GraphProto: name (a text), node, input (value-infos), initializer
\* (tensors) and output (value-infos)
NewGraphProto ==
    [name |-> <<>>, node |-> <<>>, input |-> <<>>, initializer |-> <<>>,
     output |-> <<>>]

NewNodeProto == [op_type |-> <<>>, input |-> <<>>, output |-> <<>>, attribute |-> <<>>]

\* an attribute of the given name and kind whose field holds v
StoredAttribute(name, type, field, v) ==
    [AttributeProto EXCEPT !.name = name, !.type = type, ![field] = v]

PlainNode == [NewNodeProto EXCEPT !.op_type = <<82, 101, 108, 117>>, !.input = <<<<120>>>>, !.output = <<<<121>>>>]

\* a graph of one node and no subgraph
LeafGraph(name) == [NewGraphProto EXCEPT !.name = name, !.node = <<PlainNode>>]

\* an INT64 tensor of the given dims holding 5s
Int64Tensor(name, dims, n) ==
    [NewTensorProto EXCEPT !.name = name, !.data_type = "INT64", !.dims = dims,
                           !.int64_data = [j \in 1..n |-> PyInt(5)]]

\* b = 0, a = 1, a = 0 (one name twice), c = 0.5, s = "x'", ints, a tensor
\* of dims [2], a graph and a list of two graphs
StoredAttributes ==
    {StoredAttribute(<<98>>, "INT", "i", <<PyInt(0)>>),
     StoredAttribute(<<97>>, "INT", "i", <<PyInt(1)>>),
     StoredAttribute(<<97>>, "INT", "i", <<PyInt(0)>>),
     StoredAttribute(<<99>>, "FLOAT", "f", <<PyFloat(1)>>),
     StoredAttribute(<<115>>, "STRING", "s", <<PyBytes(<<120, 39>>)>>),
     StoredAttribute(<<107>>, "INTS", "ints", <<PyInt(10), PyInt(0 - 3)>>),
     StoredAttribute(<<116>>, "TENSOR", "t", <<Int64Tensor(<<84>>, <<2>>, 2)>>),
     StoredAttribute(<<122>>, "GRAPH", "g", <<LeafGraph(<<65>>)>>),
     StoredAttribute(<<104>>, "GRAPHS", "graphs", <<LeafGraph(<<66>>), LeafGraph(<<67>>)>>)}

\* the sequences of up to n different elements of S
InjSeqsUpTo(S, n) ==
    {f \in SeqsUpTo(S, n) : \A i, j \in 1..Len(f) : i # j => f[i] # f[j]}

\* a node without names printed without prefix and subgraphs, and a node
\* of two inputs and two outputs printed with them
NodeCalls ==
    {[input |-> <<>>, output |-> <<>>, prefix |-> <<>>, subgraphs |-> FALSE],
     [input |-> <<<<120>>, <<119>>>>, output |-> <<<<121>>, <<118>>>>,
      prefix |-> <<32, 32>>, subgraphs |-> TRUE]}

Prefixes == {<<>>, <<32, 32>>}

MaxInputs == 2

MaxInits == 2

\* a FLOAT value-info of shape [2], or of shape [None]
FloatInput(name) ==
    Value(make_tensor_value_info(name, "FLOAT", Some(<<PyInt(2)>>), "", None))

UnsetDimInput(name) ==
    Value(make_tensor_value_info(name, "FLOAT", Some(<<PyNone>>), "", None))

\* an initializer: a is of dims [2, 3], every other one a scalar
Initializer(name) ==
    IF name = <<97>> THEN Int64Tensor(name, <<2, 3>>, 6) ELSE Int64Tensor(name, <<>>, 1)

\* graphs of one node whose inputs are named a or b and whose initializers
\* are named a or c, names repeated or not; and one whose input has an
\* unset dimension
HeaderGraphs ==
    {[LeafGraph(<<72>>) EXCEPT
            !.input = [i \in 1..Len(ins) |-> FloatInput(ins[i])],
            !.initializer = [i \in 1..Len(inits) |-> Initializer(inits[i])],
            !.output = <<FloatInput(<<121>>)>>] :
        ins \in SeqsUpTo({<<97>>, <<98>>}, MaxInputs),
        inits \in SeqsUpTo({<<97>>, <<99>>}, MaxInits)}
      \cup {[LeafGraph(<<85>>) EXCEPT !.input = <<UnsetDimInput(<<97>>)>>]}

GraphAttribute(name, g) == StoredAttribute(name, "GRAPH", "g", <<g>>)

GraphsAttribute(name, gs) == StoredAttribute(name, "GRAPHS", "graphs", gs)

NodeWith(attrs) ==
    [NewNodeProto EXCEPT !.op_type = <<73, 102>>, !.input = <<<<120>>>>, !.output = <<<<121>>>>,
                         !.attribute = attrs]

GraphOf(name, nodes) == [NewGraphProto EXCEPT !.name = name, !.node = nodes]

\* the graph n alone, or with subgraphs c and d attached in one of four
\* ways (d below c in the last)
Subgraphs(n, c, d) ==
    {LeafGraph(n),
     GraphOf(n, <<NodeWith(<<GraphAttribute(<<122>>, LeafGraph(c))>>)>>),
     GraphOf(n, <<PlainNode,
                  NodeWith(<<GraphsAttribute(<<104>>, <<LeafGraph(c), LeafGraph(d)>>)>>)>>),
     GraphOf(n, <<NodeWith(<<GraphAttribute(<<122>>, LeafGraph(c)),
                             GraphAttribute(<<98>>, LeafGraph(d))>>)>>),
     GraphOf(n, <<NodeWith(<<GraphAttribute(<<122>>,
                    GraphOf(c, <<NodeWith(<<GraphAttribute(<<122>>, LeafGraph(d))>>)>>))>>)>>)}

\* the nodes of a graph with the subgraphs A and B: two attributes of one
\* node (stored against the order of their texts), of two nodes, one list,
\* a list and an attribute
NodesWith(A, B) ==
    {<<NodeWith(<<GraphAttribute(<<122>>, A), GraphAttribute(<<98>>, B)>>)>>,
     <<NodeWith(<<GraphAttribute(<<122>>, A)>>), PlainNode,
       NodeWith(<<GraphAttribute(<<98>>, B)>>)>>,
     <<NodeWith(<<GraphsAttribute(<<104>>, <<A, B>>)>>)>>,
     <<NodeWith(<<GraphsAttribute(<<104>>, <<A>>),
                  StoredAttribute(<<107>>, "INT", "i", <<PyInt(1)>>),
                  GraphAttribute(<<98>>, B)>>)>>}

NestedGraphs ==
    {GraphOf(<<71>>, nodes) :
        nodes \in UNION {NodesWith(A, B) : A \in Subgraphs(<<65>>, <<67>>, <<68>>),
                                          B \in Subgraphs(<<66>>, <<69>>, <<70>>)}}

MaxImports == 1

\* a keyword that is passed (a sequence of one value) or not (of none)
Keyword(vs) == IF Len(vs) = 0 THEN None ELSE Some(vs[1])

Init ==
    /\ pc = "call"
    /\ ret = NoRet
    /\ decoded = NoRet
    /\ printed = ""
    /\ rendered = NoRet
    /\ \/ \E ids \in SeqsUpTo(OpsetIds, MaxIds) :
            call = [op |-> "find_min_ir_version_for", opsetidlist |-> ids]
       \/ \E v \in AttributeValues, d \in {"", "doc"} :
            call = [op |-> "make_attribute", key |-> "a", value |-> v, doc_string |-> d]
       \/ \E dt \in DataTypes, dims \in SeqsUpTo(0..MaxDim, MaxRank),
             raw \in BOOLEAN, n \in 0..MaxVals :
            call = [op |-> "make_tensor", name |-> "T", data_type |-> dt,
                    dims |-> dims, vals |-> ValsOf(dt, raw, n), raw |-> raw]
       \/ \E f \in {"make_tensor_value_info", "make_sparse_tensor_value_info"},
             shape \in {None} \cup {Some(sh) : sh \in SeqsUpTo(ShapeItems, MaxShapeLen)},
             den \in {None} \cup {Some(dn) : dn \in SeqsUpTo(Denotations, MaxDenotLen)} :
            call = [op |-> f, name |-> <<88>>, elem_type |-> "FLOAT", shape |-> shape,
                    doc_string |-> "", shape_denotation |-> den]
       \/ \E attrs \in InjSeqsUpTo(StoredAttributes, MaxAttrs), c \in NodeCalls :
            call = [op |-> "printable_node",
                    node |-> [op_type |-> <<79, 112>>, input |-> c.input,
                              output |-> c.output, attribute |-> attrs],
                    prefix |-> c.prefix, subgraphs |-> c.subgraphs]
       \/ \E g \in HeaderGraphs \cup NestedGraphs, prefix \in Prefixes :
            call = [op |-> "printable_graph", graph |-> g, prefix |-> prefix]
       \/ \E ir \in SeqsUpTo({3, 8}, 1),
             imports \in {None} \cup {Some(ids) : ids \in SeqsUpTo(OpsetIds, MaxImports)},
             producer \in SeqsUpTo({"p"}, 1), current \in SupportedOpsetVersions :
            call = [op |-> "make_model_gen_version", graph |-> LeafGraph(<<71>>),
                    kwargs |-> [ir_version |-> Keyword(ir), opset_imports |-> imports,
                                producer_name |-> Keyword(producer)],
                    onnx_opset_version |-> current]
       \/ \E s \in SanitizeInputs :
            call = [op |-> "_sanitize_str", s |-> s]

Finish(r) ==
    /\ ret' = r
    /\ pc' = "done"
    /\ UNCHANGED <<call, decoded, printed, rendered>>

FindMinIrVersionFor ==
    /\ pc = "call" /\ call.op = "find_min_ir_version_for"
    /\ Finish(find_min_ir_version_for(call.opsetidlist))

MakeAttribute ==
    /\ pc = "call" /\ call.op = "make_attribute"
    /\ Finish(make_attribute(call.key, call.value, call.doc_string))

\* the caller decodes the attribute it built
GetAttributeValue ==
    /\ pc = "done" /\ call.op = "make_attribute" /\ ret.ok
    /\ decoded = NoRet
    /\ decoded' = get_attribute_value(Value(ret))
    /\ UNCHANGED <<call, pc, ret, printed, rendered>>

\* the caller prints the attribute it built
PrintableAttribute ==
    /\ pc = "done" /\ call.op = "make_attribute" /\ ret.ok
    /\ printed = ""
    /\ printed' = printable_attribute_field(Value(ret))
    /\ UNCHANGED <<call, pc, ret, decoded, rendered>>

MakeTensor ==
    /\ pc = "call" /\ call.op = "make_tensor"
    /\ Finish(make_tensor(call.name, call.data_type, call.dims, call.vals, call.raw))

MakeTensorValueInfo ==
    /\ pc = "call" /\ call.op = "make_tensor_value_info"
    /\ Finish(make_tensor_value_info(call.name, call.elem_type, call.shape,
                                     call.doc_string, call.shape_denotation))

MakeSparseTensorValueInfo ==
    /\ pc = "call" /\ call.op = "make_sparse_tensor_value_info"
    /\ Finish(make_sparse_tensor_value_info(call.name, call.elem_type, call.shape,
                                            call.doc_string, call.shape_denotation))

\* the caller prints the value-info it built
PrintableValueInfo ==
    /\ pc = "done" /\ ret.ok
    /\ call.op \in {"make_tensor_value_info", "make_sparse_tensor_value_info"}
    /\ rendered = NoRet
    /\ rendered' = printable_value_info(Value(ret))
    /\ UNCHANGED <<call, pc, ret, decoded, printed>>

SanitizeStr ==
    /\ pc = "call" /\ call.op = "_sanitize_str"
    /\ Finish(Return(sanitize_str(call.s)))

PrintableNode ==
    /\ pc = "call" /\ call.op = "printable_node"
    /\ LET pn == printable_node(call.node, call.prefix)
       IN  Finish(IF call.subgraphs THEN Return(pn) ELSE Return(pn.text))

PrintableGraph ==
    /\ pc = "call" /\ call.op = "printable_graph"
    /\ Finish(printable_graph(call.graph, call.prefix))

MakeModelGenVersion ==
    /\ pc = "call" /\ call.op = "make_model_gen_version"
    /\ Finish(make_model_gen_version(call.graph, call.kwargs, call.onnx_opset_version))

Next ==
    \/ PrintableValueInfo
    \/ MakeModelGenVersion
    \/ PrintableGraph
    \/ PrintableNode
    \/ SanitizeStr
    \/ FindMinIrVersionFor
    \/ MakeAttribute
    \/ GetAttributeValue
    \/ PrintableAttribute
    \/ MakeTensor
    \/ MakeTensorValueInfo
    \/ MakeSparseTensorValueInfo

Spec == Init /\ [][Next]_vars

(***************************************************************************)
(* 12. Properties of the version table and of find_min_ir_version_for       *)
(***************************************************************************)
TableRows == 1..Len(VERSION_TABLE)

\* row r lists opset version pair[2] for domain pair[1]
RowMentions(r, pair) ==
    \E k \in 1..Len(VERSION_TABLE[r].args) :
        /\ k <= Len(DOMAIN_NAMES)
        /\ DOMAIN_NAMES[k] = pair[1]
        /\ VERSION_TABLE[r].args[k] = pair[2]

\* the pairs the table lists: a row's k-th trailing integer, for the k-th
\* domain name
TablePairs ==
    UNION {{<<DOMAIN_NAMES[k], VERSION_TABLE[r].args[k]>> :
              k \in (DOMAIN VERSION_TABLE[r].args) \cap (DOMAIN DOMAIN_NAMES)} :
           r \in TableRows}

FirstRow(pair) ==
    CHOOSE r \in TableRows :
        RowMentions(r, pair) /\ \A q \in 1..(r - 1) : ~RowMentions(q, pair)

OpsetKey(id) == <<IF id.domain = "" THEN "ai.onnx" ELSE id.domain, id.version>>

FindMinCalled == pc = "done" /\ call.op = "find_min_ir_version_for"

UnsupportedOpset == Raise("ValueError: Unsupported opset-version.")

\* C1: every (domain, opset version) pair of VERSION_TABLE is mapped to the
\* IR version of the first row that lists it, and find_min_ir_version_for
\* of that single opset id returns that IR version, also when a later row
\* lists the pair with another IR version.
C1_FirstRowWins ==
    /\ \A pair \in TablePairs :
          /\ pair \in DOMAIN OP_SET_ID_VERSION_MAP
          /\ OP_SET_ID_VERSION_MAP[pair] = VERSION_TABLE[FirstRow(pair)].ir
    /\ DOMAIN OP_SET_ID_VERSION_MAP = TablePairs
    /\ (FindMinCalled /\ Len(call.opsetidlist) = 1
          /\ OpsetKey(call.opsetidlist[1]) \in TablePairs)
        => ret = Return(VERSION_TABLE[FirstRow(OpsetKey(call.opsetidlist[1]))].ir)

\* a single id whose pair a later row lists with a higher IR version
C1_Witness ==
    /\ FindMinCalled /\ Len(call.opsetidlist) = 1
    /\ LET pair == OpsetKey(call.opsetidlist[1])
       IN  /\ pair \in TablePairs
           /\ \E r \in TableRows :
                 /\ RowMentions(r, pair)
                 /\ VERSION_TABLE[r].ir > VERSION_TABLE[FirstRow(pair)].ir
           /\ ret = Return(VERSION_TABLE[FirstRow(pair)].ir)

\* C2: find_min_ir_version_for returns 3 for the empty list; otherwise it
\* fails with the unsupported-opset error exactly when some id's pair (the
\* empty domain read as ai.onnx) is not in the map, and else returns the
\* greatest mapped IR version of the ids.
C2_MaxOrUnsupported ==
    FindMinCalled =>
      LET ids == call.opsetidlist
          known == \A k \in 1..Len(ids) : OpsetKey(ids[k]) \in DOMAIN OP_SET_ID_VERSION_MAP
          irs == {OP_SET_ID_VERSION_MAP[OpsetKey(ids[k])] : k \in 1..Len(ids)}
      IN  /\ Len(ids) = 0 => ret = Return(3)
          /\ ~known <=> ret = UnsupportedOpset
          /\ known <=> ret.ok
          /\ (known /\ Len(ids) > 0) =>
                /\ Value(ret) \in irs
                /\ \A v \in irs : v <= Value(ret)

\* two ids, the greater IR version first and the second with the empty
\* domain
C2_Witness ==
    /\ FindMinCalled /\ Len(call.opsetidlist) = 2 /\ ret.ok
    /\ call.opsetidlist[2].domain = ""
    /\ Value(ret) = OP_SET_ID_VERSION_MAP[OpsetKey(call.opsetidlist[1])]
    /\ Value(ret) > OP_SET_ID_VERSION_MAP[OpsetKey(call.opsetidlist[2])]

(***************************************************************************)
(* 13. Properties of the attribute codec                                    *)
(***************************************************************************)
AttributeMade == pc = "done" /\ call.op = "make_attribute"

IsText(v) == v.k = "text"

IsBytes(v) == v.k = "bytes"

IsTensorProto(v) == v.k = "TensorProto"

IsSparseTensorProto(v) == v.k = "SparseTensorProto"

IsGraphProto(v) == v.k = "GraphProto"

IsTextOrBytes(v) == v.k \in {"text", "bytes"}

\* a value of one of the twelve variants: a float, an integer, a bytes
\* string, a tensor, a sparse tensor, a graph, or a list of one of these
IsVariantValue(v) ==
    \/ IsReal(v) \/ IsBytes(v)
    \/ IsTensorProto(v) \/ IsSparseTensorProto(v) \/ IsGraphProto(v)
    \/ /\ v.k = "list"
       /\ \/ All(v.items, IsReal) \/ All(v.items, IsBytes)
          \/ All(v.items, IsTensorProto) \/ All(v.items, IsSparseTensorProto)
          \/ All(v.items, IsGraphProto)

\* C3: for a value v of any of the twelve variants, make_attribute accepts
\* v and get_attribute_value of the record it returns is a value equal
\* (Python ==) to v; a list of numbers with integral elements comes back as
\* the same numbers.
C3_RoundTrip ==
    (call.op = "make_attribute" /\ IsVariantValue(call.value)) =>
        /\ pc = "done" => ret.ok
        /\ decoded # NoRet =>
              /\ decoded.ok
              /\ PyEq(Value(decoded), call.value)

\* [2, 0.5] is stored as Floats and decoded as [2.0, 0.5]
C3_Witness ==
    /\ AttributeMade /\ decoded.ok
    /\ call.value = PyList(<<PyInt(2), PyFloat(1)>>)
    /\ Value(ret).type = "FLOATS"
    /\ Value(decoded) = PyList(<<PyFloat(4), PyFloat(1)>>)

\* the repeated field that holds the elements of a list kind
ListField(type) ==
    CASE type = "FLOATS" -> "floats"
      [] type = "INTS" -> "ints"
      [] type = "STRINGS" -> "strings"
      [] type = "TENSORS" -> "tensors"
      [] type = "SPARSE_TENSORS" -> "sparse_tensors"
      [] type = "GRAPHS" -> "graphs"

\* the stored element x is the supplied element v: the same number, the
\* same message, or the UTF-8 bytes of the text
StoredAs(x, v) ==
    IF IsText(v) THEN x = PyBytes(Utf8(v.s)) ELSE ScalarEq(x, v)

\* the record is of the list kind type and holds exactly the elements of
\* items, in order
HoldsList(r, type, items) ==
    /\ r.ok
    /\ Value(r).type = type
    /\ LET stored == Value(r)[ListField(type)]
       IN  /\ Len(stored) = Len(items)
           /\ \A k \in 1..Len(items) : StoredAs(stored[k], items[k])

HoldsSingle(r, type) == r.ok /\ Value(r).type = type

\* the kind the fixed order of rules gives the value v, read off r
FollowsRules(v, r) ==
    IF IsFloat(v) THEN HoldsSingle(r, "FLOAT")
    ELSE IF IsIntegral(v) THEN HoldsSingle(r, "INT")
    ELSE IF IsTextOrBytes(v) THEN HoldsSingle(r, "STRING")
    ELSE IF IsTensorProto(v) THEN HoldsSingle(r, "TENSOR")
    ELSE IF IsSparseTensorProto(v) THEN HoldsSingle(r, "SPARSE_TENSOR")
    ELSE IF IsGraphProto(v) THEN HoldsSingle(r, "GRAPH")
    ELSE IF IsIterable(v) THEN
        IF All(v.items, IsIntegral) THEN HoldsList(r, "INTS", v.items)
        ELSE IF All(v.items, IsReal) THEN HoldsList(r, "FLOATS", v.items)
        ELSE IF All(v.items, IsTextOrBytes) THEN HoldsList(r, "STRINGS", v.items)
        ELSE IF All(v.items, IsTensorProto) THEN HoldsList(r, "TENSORS", v.items)
        ELSE IF All(v.items, IsSparseTensorProto)
          THEN HoldsList(r, "SPARSE_TENSORS", v.items)
        ELSE IF All(v.items, IsGraphProto) THEN HoldsList(r, "GRAPHS", v.items)
        ELSE r = Raise("ValueError: iterable attribute of no applicable type")
    ELSE r = Raise("TypeError: not valid attribute data type")

\* C4: make_attribute gives the value the kind of the first matching rule
\* (Float, Int, String, Tensor, SparseTensor, Graph; for an iterable, by all
\* of its elements, Ints, Floats, Strings, Tensors, SparseTensors, Graphs,
\* else the ambiguous-attribute error; else the unsupported-type error) and
\* stores exactly the elements of the iterable, in order.
C4_Disambiguation == AttributeMade => FollowsRules(call.value, ret)

\* the same, for every value but the one-shot iterators
C4_ForReiterables ==
    (AttributeMade /\ call.value.k # "iter") => FollowsRules(call.value, ret)

\* the field that holds the value of a kind
FieldOfType(type) ==
    CASE type = "FLOAT" -> "f"
      [] type = "INT" -> "i"
      [] type = "STRING" -> "s"
      [] type = "TENSOR" -> "t"
      [] type = "SPARSE_TENSOR" -> "sparse_tensor"
      [] type = "GRAPH" -> "g"
      [] OTHER -> ListField(type)

ValueFields ==
    {"f", "i", "s", "t", "sparse_tensor", "g", "floats", "ints", "strings",
     "tensors", "sparse_tensors", "graphs"}

\* the value fields of the record that hold something
Populated(attr) == {field \in ValueFields : Len(attr[field]) > 0}

\* C5: a record returned by make_attribute has exactly one of the twelve
\* value fields populated, the one its kind tag names, and
\* printable_attribute takes the branch of that field, the variant
\* get_attribute_value selects by the tag.
C5_OnePopulatedMatchingTag ==
    (AttributeMade /\ ret.ok) =>
        LET attr == Value(ret)
        IN  /\ Populated(attr) = {FieldOfType(attr.type)}
            /\ printable_attribute_field(attr) = FieldOfType(attr.type)
            /\ printed # "" => printed = FieldOfType(attr.type)

\* the same, for the records with a populated field the printer knows
C5_ForPrintedKinds ==
    (AttributeMade /\ ret.ok /\ Value(ret).type \notin {"SPARSE_TENSOR", "SPARSE_TENSORS"}
       /\ Populated(Value(ret)) # {}) =>
        LET attr == Value(ret)
        IN  /\ Populated(attr) = {FieldOfType(attr.type)}
            /\ printable_attribute_field(attr) = FieldOfType(attr.type)
            /\ printed # "" => printed = FieldOfType(attr.type)

(***************************************************************************)
(* 14. Properties of the tensor codec                                      *)
(***************************************************************************)
TensorMade == pc = "done" /\ call.op = "make_tensor"

RECURSIVE ProductOf(_)
ProductOf(dims) == IF dims = <<>> THEN 1 ELSE Head(dims) * ProductOf(Tail(dims))

\* the number of values make_tensor is to be given: elements, or bytes
ExpectedCount(data_type, dims, raw) ==
    IF raw THEN ProductOf(dims) * itemsize(data_type) ELSE ProductOf(dims)

SizeMismatch == Raise("ValueError: Number of values does not match tensor's size.")

InvalidRawStringTensor ==
    Raise("AssertionError: Can not use raw_data to store string type")

\* the typed fields of the tensor that hold values
PopulatedTyped(tensor) == {field \in TypedFields : Len(tensor[field]) > 0}

\* the values the tensor stores: its raw bytes, or its typed field
StoredValues(tensor) ==
    IF Len(tensor.raw_data) > 0 THEN tensor.raw_data[1]
    ELSE tensor[storage_field(tensor.data_type)]

\* a successful call keeps the dims and, in order, the values
KeepsDimsAndValues ==
    (ret.ok /\ ~IsComplex(call.data_type)) =>
        /\ Value(ret).dims = call.dims
        /\ StoredValues(Value(ret)) = call.vals.items
        /\ PopulatedTyped(Value(ret)) \subseteq {storage_field(call.data_type)}

\* C6 as stated: make_tensor fails with the size-mismatch error exactly
\* when the number of values differs from the expected count (the product
\* of dims, times the byte width when raw); a successful call for a
\* non-complex type keeps the dims and, in order, the values.
C6_SizeMismatchExactly ==
    TensorMade =>
        /\ ret = SizeMismatch <=>
              Len(call.vals.items) # ExpectedCount(call.data_type, call.dims, call.raw)
        /\ KeepsDimsAndValues

\* C6 amended: the same for every call but a raw STRING one, which fails
\* with the invalid-raw-string error before the count is looked at.
C6_SizeMismatchUnlessRawString ==
    TensorMade =>
        /\ ~(call.data_type = "STRING" /\ call.raw) =>
              (ret = SizeMismatch <=>
                 Len(call.vals.items) # ExpectedCount(call.data_type, call.dims, call.raw))
        /\ (call.data_type = "STRING" /\ call.raw) => ret # SizeMismatch
        /\ KeepsDimsAndValues

\* a raw FLOAT tensor of dims [2, 2] built from 16 bytes
C6_Witness ==
    /\ TensorMade /\ ret.ok
    /\ call.data_type = "FLOAT" /\ call.raw /\ call.dims = <<2, 2>>
    /\ Len(Value(ret).raw_data[1]) = 4 * ProductOf(call.dims)

\* C7: a non-raw COMPLEX64 or COMPLEX128 call with as many complex values
\* as the product of dims succeeds and stores twice as many real entries in
\* the typed field, the real part of the k-th value and then its imaginary
\* part; the dims stay the supplied dims.
C7_ComplexInterleaved ==
    (TensorMade /\ IsComplex(call.data_type) /\ ~call.raw
       /\ Len(call.vals.items) = ProductOf(call.dims)) =>
        /\ ret.ok
        /\ LET tensor == Value(ret)
               field == tensor[storage_field(call.data_type)]
               n == Len(call.vals.items)
           IN  /\ tensor.dims = call.dims
               /\ Len(tensor.raw_data) = 0
               /\ PopulatedTyped(tensor) \subseteq {storage_field(call.data_type)}
               /\ Len(field) = 2 * n
               /\ \A k \in 1..n :
                     /\ field[2 * k - 1] = Num(call.vals.items[k].re, 0)
                     /\ field[2 * k] = Num(call.vals.items[k].im, 0)

\* COMPLEX64, dims [2], two complex values: four entries re, im, re, im
C7_Witness ==
    /\ TensorMade /\ ret.ok
    /\ call.data_type = "COMPLEX64" /\ ~call.raw /\ call.dims = <<2>>
    /\ Value(ret).float_data = <<Num(1, 0), Num(-1, 0), Num(2, 0), Num(-2, 0)>>

\* C8: a raw call for a type other than STRING, COMPLEX64 and COMPLEX128
\* included, with a byte buffer of the expected length writes the buffer
\* as it is into raw_data and populates no typed field.
C8_RawVerbatim ==
    (TensorMade /\ call.raw /\ call.data_type # "STRING"
       /\ Len(call.vals.items) = ExpectedCount(call.data_type, call.dims, TRUE)) =>
        /\ ret.ok
        /\ Value(ret).raw_data = <<call.vals.items>>
        /\ PopulatedTyped(Value(ret)) = {}

\* the same, for the types that are not complex
C8_ForRealTypes ==
    (TensorMade /\ call.raw /\ call.data_type \notin {"STRING", "COMPLEX64", "COMPLEX128"}
       /\ Len(call.vals.items) = ExpectedCount(call.data_type, call.dims, TRUE)) =>
        /\ ret.ok
        /\ Value(ret).raw_data = <<call.vals.items>>
        /\ PopulatedTyped(Value(ret)) = {}

\* C9: a raw STRING call fails with the invalid-raw-string error whatever
\* the dims and the values, so no returned tensor is a STRING tensor with
\* raw bytes.
C9_RawStringRejected ==
    TensorMade =>
        /\ (call.data_type = "STRING" /\ call.raw) => ret = InvalidRawStringTensor
        /\ ret.ok => ~(Value(ret).data_type = "STRING" /\ Len(Value(ret).raw_data) > 0)

\* a raw STRING call whose byte count is the expected one, and one whose
\* count is not, both rejected
C9_Witness ==
    /\ TensorMade /\ call.data_type = "STRING" /\ call.raw
    /\ call.dims = <<1>>
    /\ Len(call.vals.items) = ExpectedCount("STRING", call.dims, TRUE)
    /\ ret = InvalidRawStringTensor

(***************************************************************************)
(* 15. Properties of the value-info builders                              *)
(***************************************************************************)
ValueInfoMade ==
    pc = "done" /\ call.op \in {"make_tensor_value_info", "make_sparse_tensor_value_info"}

DenotationLengthMismatch ==
    Raise("ValueError: Invalid shape_denotation. Must be of the same length as shape.")

\* an item a shape may hold: None, an integer or a symbolic name
IsShapeItem(d) == d.k = "NoneType" \/ IsIntegral(d) \/ IsText(d)

\* C10: with a shape (of valid items) supplied, a shape_denotation of
\* another length makes make_tensor_value_info and
\* make_sparse_tensor_value_info fail with the denotation-length error, for
\* every pair of lengths, 0 and 1 included.
C10_DenotationLengthChecked ==
    (ValueInfoMade /\ call.shape.given /\ call.shape_denotation.given
       /\ All(call.shape.v, IsShapeItem)
       /\ Len(call.shape_denotation.v) # Len(call.shape.v)) =>
        ret = DenotationLengthMismatch

\* the same, for the denotations that are not empty
C10_ForNonEmptyDenotation ==
    (ValueInfoMade /\ call.shape.given /\ call.shape_denotation.given
       /\ All(call.shape.v, IsShapeItem)
       /\ Len(call.shape_denotation.v) > 0
       /\ Len(call.shape_denotation.v) # Len(call.shape.v)) =>
        ret = DenotationLengthMismatch

(***************************************************************************)
(* 16. Properties of the printer of value-infos                            *)
(***************************************************************************)
TensorValueInfoMade ==
    pc = "done" /\ call.op = "make_tensor_value_info" /\ ret.ok

\* the dimension built for the shape item d: a concrete size, a symbolic
\* name, or unset
DimensionOf(dim, d) ==
    IF d.k = "NoneType" THEN dim.which = ""
    ELSE IF IsIntegral(d) THEN dim.which = "dim_value" /\ dim.value.n = d.n
    ELSE dim.which = "dim_param" /\ dim.value.s = d.s

\* "%X[FLOAT, scalar]" and "%X[FLOAT]"
ScalarText == <<37>> \o <<88>> \o <<91>> \o LIT_FLOAT \o LIT_SCALAR \o <<93>>

NoShapeText == <<37>> \o <<88>> \o <<91>> \o LIT_FLOAT \o <<93>>

\* C11: a tensor value-info built with shape=[] has its shape field present
\* with no dimension and prints as "%X[FLOAT, scalar]"; one built with
\* shape=None has no shape field and prints as "%X[FLOAT]"; a shape of
\* n > 0 items gives n dimensions, the i-th a concrete size, a symbolic
\* name or unset as the i-th item is.
C11_EmptyShapeIsNotAbsent ==
    TensorValueInfoMade =>
        LET type == Value(ret).type
        IN  /\ (call.shape.given /\ Len(call.shape.v) = 0) =>
                  /\ Len(type.shape) = 1
                  /\ Len(type.shape[1].dim) = 0
                  /\ rendered # NoRet => rendered = Return(ScalarText)
            /\ ~call.shape.given =>
                  /\ Len(type.shape) = 0
                  /\ rendered # NoRet => rendered = Return(NoShapeText)
            /\ (call.shape.given /\ Len(call.shape.v) > 0) =>
                  /\ Len(type.shape) = 1
                  /\ Len(type.shape[1].dim) = Len(call.shape.v)
                  /\ \A i \in 1..Len(call.shape.v) :
                        DimensionOf(type.shape[1].dim[i], call.shape.v[i])

\* shape=[] printed with ", scalar"
C11_Witness ==
    /\ TensorValueInfoMade
    /\ call.shape.given /\ Len(call.shape.v) = 0
    /\ rendered = Return(ScalarText)

(***************************************************************************)
(* 17. Properties of _sanitize_str                                         *)
(***************************************************************************)
Sanitized == pc = "done" /\ call.op = "_sanitize_str"

\* the string _sanitize_str works on: the text, or the decoded bytes
DecodedInput ==
    IF call.s.k = "text" THEN call.s.s
    ELSE IF call.s.k = "bytes" THEN Utf8Decode(call.s.s)
    ELSE str_int(call.s.n)

IsPrefixOf(a, b) == Len(a) <= Len(b) /\ SubSeq(b, 1, Len(a)) = a

\* C16: _sanitize_str returns the decoded string unchanged if it has at
\* most 64 characters, and otherwise its first 64 characters followed by
\* the suffix that states the number of omitted characters (at least 1).
C16_SuffixOnlyWhenCut ==
    Sanitized =>
        LET d == DecodedInput
        IN  /\ Len(d) <= 64 => ret = Return(d)
            /\ Len(d) > 64 =>
                  ret = Return(SubSeq(d, 1, 64) \o LIT_DOTS \o str_int(Len(d) - 64) \o <<62>>)

\* the same, with the unchanged strings those of fewer than 64 characters
C16_ForOtherThan64 ==
    (Sanitized /\ Len(DecodedInput) # 64) =>
        LET d == DecodedInput
        IN  /\ Len(d) < 64 => ret = Return(d)
            /\ Len(d) > 64 =>
                  ret = Return(SubSeq(d, 1, 64) \o LIT_DOTS \o str_int(Len(d) - 64) \o <<62>>)

(***************************************************************************)
(* 18. Properties of printable_node                                        *)
(***************************************************************************)
NodePrinted == pc = "done" /\ call.op = "printable_node"

\* the text printable_node returned, alone or with the subgraphs
NodeText == IF call.subgraphs THEN Value(ret).text ELSE Value(ret)

IndexPermutations(n) == {p \in [1..n -> 1..n] : \A i, j \in 1..n : i # j => p[i] # p[j]}

Permuted(xs, p) == [i \in 1..Len(xs) |-> xs[p[i]]]

InLexOrder(xs) == \A i, j \in 1..Len(xs) : i < j => LexLeq(xs[i], xs[j])

\* "%n1, %n2, ..."
NamesText(names) == Join(<<44, 32>>, [i \in 1..Len(names) |-> <<37>> \o names[i]])

\* the text of a node whose attributes are printed as texts, in this order
NodeFormat(node, prefix, texts) ==
    prefix
      \o (IF Len(node.output) > 0 THEN NamesText(node.output) \o <<32, 61, 32>> ELSE <<>>)
      \o node.op_type
      \o (IF Len(texts) > 0 THEN <<91>> \o Join(<<44, 32>>, texts) \o <<93>> ELSE <<>>)
      \o <<40>> \o NamesText(node.input) \o <<41>>

\* C15: printable_node prints "outputs = op_type[attributes](inputs)", the
\* names prefixed by "%" and joined by ", " in declaration order, without
\* the bracketed section if the node has no attribute, the attributes in
\* the lexicographic order of their printed texts; the text is the same
\* for every permutation of the stored attributes.
C15_AttributesInTextOrder ==
    NodePrinted =>
        LET node == call.node
            texts == [i \in 1..Len(node.attribute) |->
                        printable_attribute(node.attribute[i]).text]
        IN  /\ \E p \in IndexPermutations(Len(texts)) :
                  /\ InLexOrder(Permuted(texts, p))
                  /\ NodeText = NodeFormat(node, call.prefix, Permuted(texts, p))
            /\ \A p \in IndexPermutations(Len(texts)) :
                  printable_node([node EXCEPT !.attribute = Permuted(@, p)],
                                 call.prefix).text = NodeText

\* two attributes of one name stored against the order of their texts
C15_Witness ==
    /\ NodePrinted
    /\ Len(call.node.attribute) = 2
    /\ call.node.attribute[1].name = call.node.attribute[2].name
    /\ ~LexLeq(printable_attribute(call.node.attribute[1]).text,
               printable_attribute(call.node.attribute[2]).text)
    /\ Len(call.node.output) > 0
    /\ NodeText = NodeFormat(call.node, call.prefix,
                             <<<<97, 32, 61, 32, 48>>, <<97, 32, 61, 32, 49>>>>)

(***************************************************************************)
(* 19. Properties of printable_graph                                       *)
(***************************************************************************)
GraphPrinted == pc = "done" /\ call.op = "printable_graph" /\ ret.ok

\* the lines of a text: what is between its line feeds
SplitLines(text) ==
    LET feeds == {i \in 1..Len(text) : text[i] = 10}
        Feed(k) == IF k = 0 THEN 0
                   ELSE IF k > Cardinality(feeds) THEN Len(text) + 1
                   ELSE CHOOSE p \in feeds : Cardinality({q \in feeds : q < p}) = k - 1
    IN  [k \in 1..(Cardinality(feeds) + 1) |-> SubSeq(text, Feed(k - 1) + 1, Feed(k) - 1)]

PrintedLines == SplitLines(Value(ret))

StartsWith(text, head) == Len(head) <= Len(text) /\ SubSeq(text, 1, Len(head)) = head

EndsWith(text, tail) ==
    Len(tail) <= Len(text) /\ SubSeq(text, Len(text) - Len(tail) + 1, Len(text)) = tail

RECURSIVE Unindented(_)
Unindented(line) ==
    IF Len(line) > 0 /\ line[1] = 32 THEN Unindented(Tail(line)) ELSE line

\* the indexes of xs, in order, whose element satisfies P
Where(xs, P(_)) == SelectSeq([i \in 1..Len(xs) |-> i], LAMBDA i : P(xs[i]))

\* a line "graph NAME ..." opens a block and a line "}" closes one
IsBlockHead(line) == StartsWith(Unindented(line), <<103, 114, 97, 112, 104, 32>>)

IsBlockEnd(line) == Unindented(line) = <<125>>

RECURSIVE UpToSpace(_)
UpToSpace(text) ==
    IF Len(text) = 0 \/ text[1] = 32 THEN <<>> ELSE <<text[1]>> \o UpToSpace(Tail(text))

BlockName(line) == UpToSpace(SubSeq(Unindented(line), 7, Len(Unindented(line))))

\* the subgraphs a graph surfaces: nodes in declaration order, attributes
\* in stored order, list elements in list order
Surfaced(graph) ==
    Concat([n \in 1..Len(graph.node) |->
        Concat([a \in 1..Len(graph.node[n].attribute) |->
            graph.node[n].attribute[a].g \o graph.node[n].attribute[a].graphs])])

\* the names of the graphs of a tree: a graph, then each surfaced subgraph
\* with all that is nested in it, before the next surfaced subgraph
RECURSIVE Preorder(_)
Preorder(graph) ==
    <<graph.name>>
      \o Concat([k \in 1..Len(Surfaced(graph)) |-> Preorder(Surfaced(graph)[k])])

\* C12: printable_graph of a tree of graphs terminates with a text that
\* holds one block per graph of the tree, the blocks one after the other
\* (before the j-th block opens, j - 1 blocks have closed: no block is
\* inside another, every nested block is after the closing brace of its
\* enclosing graph), in the order of the tree: a graph, then each
\* subgraph it surfaces, in surfaced order, followed by all that is
\* nested in that subgraph.
C12_NestedBlocksInSurfacedOrder ==
    (pc = "done" /\ call.op = "printable_graph" /\ call.graph \in NestedGraphs) =>
        /\ ret.ok
        /\ LET lines == PrintedLines
               heads == Where(lines, IsBlockHead)
               ends == Where(lines, IsBlockEnd)
               names == Preorder(call.graph)
           IN  /\ Len(heads) = Len(names)
               /\ Len(ends) = Len(names)
               /\ \A j \in 1..Len(heads) :
                     /\ BlockName(lines[heads[j]]) = names[j]
                     /\ Cardinality({e \in 1..Len(ends) : ends[e] < heads[j]}) = j - 1

\* G holds A and B in two attributes of one node, stored against the order
\* of their texts; A holds C and B holds E
C12_Witness ==
    /\ GraphPrinted
    /\ Len(call.graph.node) = 1
    /\ Len(call.graph.node[1].attribute) = 2
    /\ [j \in 1..Len(Where(PrintedLines, IsBlockHead)) |->
            BlockName(PrintedLines[Where(PrintedLines, IsBlockHead)[j]])]
          = <<<<71>>, <<65>>, <<67>>, <<66>>, <<69>>>>

\* the header of the first block: the lines up to the one that ends in "{"
HeaderLines ==
    LET lines == PrintedLines
        last == CHOOSE i \in 1..Len(lines) :
                    /\ EndsWith(lines[i], <<123>>)
                    /\ \A j \in 1..(i - 1) : ~EndsWith(lines[j], <<123>>)
    IN  SubSeq(lines, 1, last)

IsEntry(line) == StartsWith(Unindented(line), <<37>>)

\* the section a line of the header opens
SectionOpened(line) ==
    IF EndsWith(line, <<111, 112, 116, 105, 111, 110, 97, 108, 32, 105, 110, 112, 117, 116, 115, 32, 119, 105, 116, 104, 32, 109, 97, 116, 99, 104, 105, 110, 103, 32, 105, 110, 105, 116, 105, 97, 108, 105, 122, 101, 114, 115, 32, 40>>) THEN "optional"
    ELSE IF EndsWith(line, <<105, 110, 105, 116, 105, 97, 108, 105, 122, 101, 114, 115, 32, 40>>) THEN "initializers"
    ELSE IF EndsWith(line, <<40>>) THEN "required"
    ELSE "none"

\* the section an entry of the header is listed under: the one opened by
\* the nearest line above it that is no entry
SectionOf(lines, i) ==
    LET above == {j \in 1..(i - 1) : ~IsEntry(lines[j])}
    IN  IF above = {} THEN "none"
        ELSE SectionOpened(lines[CHOOSE j \in above : \A k \in above : k <= j])

\* the entries listed under a section
Listed(section) ==
    LET lines == HeaderLines
        at == SelectSeq([i \in 1..Len(lines) |-> i],
                        LAMBDA i : IsEntry(lines[i]) /\ SectionOf(lines, i) = section)
    IN  [k \in 1..Len(at) |-> Unindented(lines[at[k]])]

Count(xs, x) == Cardinality({i \in 1..Len(xs) : xs[i] = x})

\* as many of each in xs as in ys
SameEntries(xs, ys) ==
    /\ Len(xs) = Len(ys)
    /\ \A i \in 1..Len(xs) : Count(xs, xs[i]) = Count(ys, xs[i])

InitializerNames ==
    {call.graph.initializer[i].name : i \in 1..Len(call.graph.initializer)}

InputNames == {call.graph.input[i].name : i \in 1..Len(call.graph.input)}

\* the printed inputs that have no / have an initializer of their name,
\* and the printed initializers that have no input of their name
RequiredInputs ==
    Map(SelectSeq(call.graph.input, LAMBDA v : v.name \notin InitializerNames),
        LAMBDA v : Value(printable_value_info(v)))

OptionalInputs ==
    Map(SelectSeq(call.graph.input, LAMBDA v : v.name \in InitializerNames),
        LAMBDA v : Value(printable_value_info(v)))

UnmatchedInitializers ==
    Map(SelectSeq(call.graph.initializer, LAMBDA t : t.name \notin InputNames),
        printable_tensor_proto)

HeaderAsClaimed ==
    /\ SameEntries(Listed("required"), RequiredInputs)
    /\ SameEntries(Listed("optional"), OptionalInputs)
    /\ SameEntries(Listed("initializers"), UnmatchedInitializers)
    /\ (\E i \in 1..Len(HeaderLines) : SectionOpened(HeaderLines[i]) = "initializers")
          <=> Len(UnmatchedInitializers) > 0

\* C13: in the header of a printed graph every declared input is listed
\* once, under the required inputs if no initializer has its name and under
\* the optional inputs otherwise, and every initializer without an input
\* of its name is listed once under "initializers (", a section that is
\* there exactly if there is such an initializer; for every graph.
C13_HeaderListsAll == GraphPrinted => HeaderAsClaimed

\* the same for the graphs that declare an input and repeat no input name
C13_ForDistinctDeclaredInputs ==
    (/\ GraphPrinted
     /\ Len(call.graph.input) > 0
     /\ Cardinality(InputNames) = Len(call.graph.input)) => HeaderAsClaimed

(***************************************************************************)
(* 20. Properties of make_model_gen_version                                *)
(***************************************************************************)
ModelGenerated == pc = "done" /\ call.op = "make_model_gen_version"

\* the opset imports the model ends up with: those supplied, or the one
\* default import at the supported version
ImportsOfModel ==
    IF call.kwargs.opset_imports.given THEN call.kwargs.opset_imports.v
    ELSE <<[domain |-> "", version |-> call.onnx_opset_version]>>

IrVersionAsClaimed ==
    IF call.kwargs.ir_version.given
      THEN ret.ok /\ Value(ret).ir_version = call.kwargs.ir_version.v
      ELSE LET looked_up == find_min_ir_version_for(ImportsOfModel)
           IN  IF looked_up.ok
                 THEN /\ ret.ok
                      /\ Value(ret).opset_import = ImportsOfModel
                      /\ Value(ret).ir_version = Value(looked_up)
                 ELSE ~ret.ok

\* C14: make_model_gen_version without ir_version returns a model whose
\* ir_version is find_min_ir_version_for of the opset imports the model
\* ends up with (those supplied, or the default import at the supported
\* version), and no model if that lookup fails; with ir_version it returns
\* a model of that ir_version.
C14_IrVersionOfFinalImports == ModelGenerated => IrVersionAsClaimed

\* the same for the calls that pass opset_imports or ir_version
C14_ForSuppliedImports ==
    (/\ ModelGenerated
     /\ call.kwargs.opset_imports.given \/ call.kwargs.ir_version.given)
        => IrVersionAsClaimed

====
